---------------------------- MODULE Spec2Model ----------------------------
(***************************************************************************)
(* Model of the AI Content Assistant backend (src/index.js): four HTTP     *)
(* handlers over a document store holding the Organization and Prompt      *)
(* collections, plus one outbound call to the language-model provider.     *)
(*                                                                         *)
(* Every handler is an async function.  Each `await` is a point where      *)
(* other requests may run, so a handler is one action per awaited          *)
(* operation (a store operation or the provider call), taken together      *)
(* with the synchronous code around it.  The synchronous code before a     *)
(* handler's first await (reading and validating the body) touches         *)
(* nothing shared, so it is part of the action of that first operation.    *)
(*                                                                         *)
(* Values.  A string field that is missing from the body, or empty, is ""  *)
(* (both are falsy for the `!x` tests of the code).  An optional field of  *)
(* a record (rating, feedback) is None when it is undefined and Some(v)    *)
(* when it holds v.  A request rating that is not of type number is None.  *)
(***************************************************************************)
EXTENDS Integers, Sequences, FiniteSets, TLC

VARIABLES
    orgs,           \* the Organization collection, in the store's natural order
    prompts,        \* the Prompt collection, in the store's natural order
    req,            \* per request slot: the handler's position and its locals
    resp,           \* the HTTP response sent by the step just taken, NoResp if none
    providerCalls,  \* number of openai.chat.completions.create calls made
    genFailed       \* Generation requests that ended 500 after their provider call

vars == <<orgs, prompts, req, resp, providerCalls, genFailed>>

-----------------------------------------------------------------------------
(* Bounds of the model *)

NumProcs == 2       \* requests that can be in flight at once
MaxOrgs == 1        \* Organization records created
MaxCalls == 2       \* provider calls made (hence Prompt records generated)
MaxSeed == 6        \* Prompt records placed in the store for the analytics runs

Procs == 1..NumProcs

OrgNames == {"acme", "bolt"}
PromptTexts == {"p", "q"}
Contents == {"t1"}
Ratings == {2, 4}
Feedbacks == {"f1"}

None == <<>>
Some(v) == <<v>>

Min(a, b) == IF a < b THEN a ELSE b

-----------------------------------------------------------------------------
(* Request bodies *)

OnboardFields == {"orgName", "brandGuide", "goals", "personas", "stylePreferences"}

OnboardBodies ==
    [orgName : OrgNames \cup {""}, brandGuide : {"", "bg"}, goals : {"", "gl"},
     personas : {"", "ps"}, stylePreferences : {"", "st"}]

GenerateBodies == [orgName : OrgNames \cup {""}, prompt : PromptTexts \cup {""}]

RateBodies ==
    [orgName : OrgNames \cup {""}, prompt : PromptTexts \cup {""},
     rating : {None} \cup {Some(r) : r \in Ratings},
     feedback : {None} \cup {Some(f) : f \in Feedbacks}]

-----------------------------------------------------------------------------
(* Responses *)

NoResp == [route |-> "none", status |-> 0, body |-> <<>>]

Response(route, status, body) == [route |-> route, status |-> status, body |-> body]

Idle == [pc |-> "idle"]

\* A new request is taken by the first free slot (the slots are interchangeable).
Accepts(p) == req[p] = Idle /\ \A q \in Procs : q < p => req[q] # Idle

Init ==
    /\ orgs = <<>>
    /\ prompts = <<>>
    /\ req = [p \in Procs |-> Idle]
    /\ resp = NoResp
    /\ providerCalls = 0
    /\ genFailed = 0

-----------------------------------------------------------------------------
(* GET / *)

Welcome(p) ==
    /\ Accepts(p)
    /\ resp' = Response("root", 200, "Welcome to AI Content Assistant API!")
    /\ UNCHANGED <<orgs, prompts, req, providerCalls, genFailed>>

-----------------------------------------------------------------------------
(* POST /api/onboard *)

\* Mutant: personas, which no later code reads, is not required.
OnboardInvalidNoPersonas(body) ==
    \/ body.orgName = ""
    \/ body.brandGuide = ""
    \/ body.goals = ""
    \/ body.stylePreferences = ""

OnboardInvalid(body) ==
    \/ body.orgName = ""
    \/ body.brandGuide = ""
    \/ body.goals = ""
    \/ body.personas = ""
    \/ body.stylePreferences = ""

\* Validation, then Organization.create, which succeeds or throws.
Onboard(p, body) ==
    /\ Accepts(p)
    /\ IF OnboardInvalid(body)
       THEN /\ resp' = Response("onboard", 400, [error |-> "Missing required fields"])
            /\ UNCHANGED orgs
       ELSE \/ /\ Len(orgs) < MaxOrgs
               /\ orgs' = Append(orgs, body)
               /\ resp' = Response("onboard", 200,
                                   [message |-> "Organization onboarded successfully"])
            \/ /\ resp' = Response("onboard", 500, [error |-> "Error saving organization"])
               /\ UNCHANGED orgs
    /\ UNCHANGED <<prompts, req, providerCalls, genFailed>>

-----------------------------------------------------------------------------
(* POST /api/generate *)

GenerateInvalid(body) == body.orgName = "" \/ body.prompt = ""

\* Mutant: the lookup ignores the orgName filter.
FindOneOrgAny(orgName) == IF Len(orgs) = 0 THEN 0 ELSE 1

\* Organization.findOne({ orgName }): the first match in natural order, 0 for null.
FindOneOrg(orgName) ==
    LET hits == {i \in 1..Len(orgs) : orgs[i].orgName = orgName}
    IN IF hits = {} THEN 0 ELSE CHOOSE i \in hits : \A j \in hits : i <= j

SystemPrompt(org) == <<org.brandGuide, org.goals, org.stylePreferences>>

\* Mutant: the record stores the prompt text as its content.
NewPromptSwapped(orgName, prompt, content) ==
    [orgName |-> orgName, prompt |-> prompt, content |-> prompt,
     rating |-> None, feedback |-> None]

\* Mutant: the record is created with a default rating of 0.
NewPromptRated(orgName, prompt, content) ==
    [orgName |-> orgName, prompt |-> prompt, content |-> content,
     rating |-> Some(0), feedback |-> None]

NewPrompt(orgName, prompt, content) ==
    [orgName |-> orgName, prompt |-> prompt, content |-> content,
     rating |-> None, feedback |-> None]

\* Generation requests whose provider call is outstanding.
PendingCalls == Cardinality({q \in Procs : req[q].pc = "generate_completion"})

\* Mutant: the 404 answer does not end the handler (a missing return).
GenerateNoReturn(p, body) ==
    /\ Accepts(p)
    /\ IF GenerateInvalid(body)
       THEN /\ resp' = Response("generate", 400, [error |-> "orgName and prompt are required"])
            /\ UNCHANGED req
       ELSE \/ /\ resp' = Response("generate", 500, [error |-> "Error generating content"])
               /\ UNCHANGED req
            \/ /\ providerCalls + Cardinality({q \in Procs : req[q].pc = "generate_completion"})
                     < MaxCalls
               /\ req' = [req EXCEPT ![p] = [pc |-> "generate_completion",
                                             orgName |-> body.orgName,
                                             prompt |-> body.prompt,
                                             systemPrompt |-> <<>>]]
               /\ resp' = IF \E i \in 1..Len(orgs) : orgs[i].orgName = body.orgName
                          THEN NoResp
                          ELSE Response("generate", 404, [error |-> "Organization not found"])
    /\ UNCHANGED <<orgs, prompts, providerCalls, genFailed>>

\* Validation, then Organization.findOne, which answers or throws; with an
\* organization found, the provider call is issued.
Generate(p, body) ==
    /\ Accepts(p)
    /\ LET i == FindOneOrg(body.orgName) IN
       IF GenerateInvalid(body)
       THEN /\ resp' = Response("generate", 400, [error |-> "orgName and prompt are required"])
            /\ UNCHANGED req
       ELSE \/ /\ resp' = Response("generate", 500, [error |-> "Error generating content"])
               /\ UNCHANGED req
            \/ /\ i = 0
               /\ resp' = Response("generate", 404, [error |-> "Organization not found"])
               /\ UNCHANGED req
            \/ /\ i # 0
               /\ providerCalls + PendingCalls < MaxCalls
               /\ req' = [req EXCEPT ![p] = [pc |-> "generate_completion",
                                             orgName |-> body.orgName,
                                             prompt |-> body.prompt,
                                             systemPrompt |-> SystemPrompt(orgs[i])]]
               /\ resp' = NoResp
    /\ UNCHANGED <<orgs, prompts, providerCalls, genFailed>>

\* The provider answers with text (result = Some(T)) or the call fails (None);
\* with text, Prompt.create is issued.
GenerateCompletion(p, result) ==
    /\ req[p].pc = "generate_completion"
    /\ providerCalls' = providerCalls + 1
    /\ IF result = None
       THEN /\ resp' = Response("generate", 500, [error |-> "Error generating content"])
            /\ req' = [req EXCEPT ![p] = Idle]
            /\ genFailed' = genFailed + 1
       ELSE /\ req' = [req EXCEPT ![p] = [pc |-> "generate_create",
                                          orgName |-> req[p].orgName,
                                          prompt |-> req[p].prompt,
                                          content |-> result[1]]]
            /\ resp' = NoResp
            /\ UNCHANGED genFailed
    /\ UNCHANGED <<orgs, prompts>>

\* Mutant: a record with the same orgName and prompt is reused, not created.
GenerateCreateDedup(p, ok) ==
    /\ req[p].pc = "generate_create"
    /\ IF ok
       THEN /\ prompts' =
                  IF \E i \in 1..Len(prompts) : /\ prompts[i].orgName = req[p].orgName
                                                /\ prompts[i].prompt = req[p].prompt
                  THEN prompts
                  ELSE Append(prompts, [orgName |-> req[p].orgName, prompt |-> req[p].prompt,
                                        content |-> req[p].content,
                                        rating |-> None, feedback |-> None])
            /\ resp' = Response("generate", 200, [content |-> req[p].content])
            /\ UNCHANGED genFailed
       ELSE /\ resp' = Response("generate", 500, [error |-> "Error generating content"])
            /\ genFailed' = genFailed + 1
            /\ UNCHANGED prompts
    /\ req' = [req EXCEPT ![p] = Idle]
    /\ UNCHANGED <<orgs, providerCalls>>

\* Prompt.create succeeds (ok) or throws, and the handler responds.
GenerateCreate(p, ok) ==
    /\ req[p].pc = "generate_create"
    /\ IF ok
       THEN /\ prompts' = Append(prompts,
                                 NewPrompt(req[p].orgName, req[p].prompt, req[p].content))
            /\ resp' = Response("generate", 200, [content |-> req[p].content])
            /\ UNCHANGED genFailed
       ELSE /\ resp' = Response("generate", 500, [error |-> "Error generating content"])
            /\ genFailed' = genFailed + 1
            /\ UNCHANGED prompts
    /\ req' = [req EXCEPT ![p] = Idle]
    /\ UNCHANGED <<orgs, providerCalls>>

-----------------------------------------------------------------------------
(* POST /api/rate *)

RateInvalid(body) == body.orgName = "" \/ body.prompt = "" \/ body.rating = None

\* Prompt.findOne({ orgName, prompt }): the first match in natural order, 0 for null.
FindOnePrompt(orgName, prompt) ==
    LET hits == {i \in 1..Len(prompts) :
                    prompts[i].orgName = orgName /\ prompts[i].prompt = prompt}
    IN IF hits = {} THEN 0 ELSE CHOOSE i \in hits : \A j \in hits : i <= j

\* entry.rating = rating; entry.feedback = feedback on the document as it was
\* loaded.  The document tracks the paths whose assigned value differs from
\* the loaded one; assigning a path the value it already has (undefined to an
\* undefined path included) leaves it unmodified.
ModifiedPaths(entry, rating, feedback) ==
    {f \in {"rating"} : entry.rating # rating} \cup
    {f \in {"feedback"} : entry.feedback # feedback}

\* Mutant: an undefined feedback is never written (no $unset).
ApplySaveKeepFeedback(stored, modified, rating, feedback) ==
    [stored EXCEPT !.rating = IF "rating" \in modified THEN rating ELSE @,
                   !.feedback = IF "feedback" \in modified /\ feedback # None
                                THEN feedback ELSE @]

\* entry.save() updates the stored record with the modified paths only
\* ($set for a value, $unset for undefined); the other paths of the stored
\* record are left as they are in the store.
ApplySave(stored, modified, rating, feedback) ==
    [stored EXCEPT !.rating = IF "rating" \in modified THEN rating ELSE @,
                   !.feedback = IF "feedback" \in modified THEN feedback ELSE @]

\* Validation, then Prompt.findOne, which answers or throws; on a match the
\* two fields are assigned on the loaded document and save is issued.
Rate(p, body) ==
    /\ Accepts(p)
    /\ LET i == FindOnePrompt(body.orgName, body.prompt) IN
       IF RateInvalid(body)
       THEN /\ resp' = Response("rate", 400,
                                [error |-> "Missing required fields or invalid rating"])
            /\ UNCHANGED req
       ELSE \/ /\ resp' = Response("rate", 500, [error |-> "Error saving feedback"])
               /\ UNCHANGED req
            \/ /\ i = 0
               /\ resp' = Response("rate", 404,
                                   [error |-> "Prompt not found for this organization"])
               /\ UNCHANGED req
            \/ /\ i # 0
               /\ req' = [req EXCEPT ![p] =
                             [pc |-> "rate_save", id |-> i,
                              rating |-> body.rating, feedback |-> body.feedback,
                              modified |-> ModifiedPaths(prompts[i], body.rating,
                                                         body.feedback)]]
               /\ resp' = NoResp
    /\ UNCHANGED <<orgs, prompts, providerCalls, genFailed>>

\* entry.save() succeeds (ok) or throws, and the handler responds.
RateSave(p, ok) ==
    /\ req[p].pc = "rate_save"
    /\ IF ok
       THEN /\ prompts' = [prompts EXCEPT ![req[p].id] =
                              ApplySave(@, req[p].modified, req[p].rating, req[p].feedback)]
            /\ resp' = Response("rate", 200, [message |-> "Feedback recorded"])
       ELSE /\ resp' = Response("rate", 500, [error |-> "Error saving feedback"])
            /\ UNCHANGED prompts
    /\ req' = [req EXCEPT ![p] = Idle]
    /\ UNCHANGED <<orgs, providerCalls, genFailed>>

-----------------------------------------------------------------------------
(* GET /api/analytics/:orgName *)

LastN == 5          \* prompts.slice(-5)
FixedDigits == 2    \* avgRating.toFixed(2)

\* Prompt.find({ orgName }): the matching records in natural order.
FindPrompts(orgName) == SelectSeq(prompts, LAMBDA d : d.orgName = orgName)

\* p.rating || 0
RatingOrZero(d) == IF d.rating = None THEN 0 ELSE d.rating[1]

\* prompts.reduce((sum, p) => sum + (p.rating || 0), 0)
RECURSIVE SumRatings(_)
SumRatings(docs) ==
    IF docs = <<>> THEN 0
    ELSE SumRatings(SubSeq(docs, 1, Len(docs) - 1)) + RatingOrZero(docs[Len(docs)])

RECURSIVE Pow10(_)
Pow10(k) == IF k = 0 THEN 1 ELSE 10 * Pow10(k - 1)

Digit(d) == <<"0", "1", "2", "3", "4", "5", "6", "7", "8", "9">>[d + 1]

RECURSIVE DecStr(_)
DecStr(n) == IF n < 10 THEN Digit(n) ELSE DecStr(n \div 10) \o Digit(n % 10)

RECURSIVE FracStr(_, _)
FracStr(n, k) == IF k = 0 THEN "" ELSE FracStr(n \div 10, k - 1) \o Digit(n % 10)

\* (sum / n).toFixed(digits): the decimal with `digits` fraction digits nearest
\* to the quotient, the larger magnitude on a tie, "-" in front of a negative
\* quotient.
ToFixed(sum, n, digits) ==
    LET scale == Pow10(digits)
        a == IF sum < 0 THEN 0 - sum ELSE sum
        q == (2 * a * scale + n) \div (2 * n)
    IN (IF sum < 0 THEN "-" ELSE "") \o DecStr(q \div scale) \o "." \o
       FracStr(q % scale, digits)

\* Mutant: the first k records, prompts.slice(0, 5).
SliceFirst(docs, k) == SubSeq(docs, 1, IF Len(docs) > k THEN k ELSE Len(docs))

\* prompts.slice(-5)
SliceLast(docs, k) ==
    SubSeq(docs, IF Len(docs) > k THEN Len(docs) - k + 1 ELSE 1, Len(docs))

Feedback(d) == [prompt |-> d.prompt, rating |-> d.rating, feedback |-> d.feedback]

\* Mutant: the mean is taken over the rated records only.
AnalyticsBodyRatedOnly(docs) ==
    LET rated == SelectSeq(docs, LAMBDA d : d.rating # None)
    IN [totalGenerated |-> Len(docs),
        averageRating |-> ToFixed(SumRatings(docs), IF rated = <<>> THEN 1 ELSE Len(rated),
                                  FixedDigits),
        last5Feedbacks |-> [i \in 1..Min(LastN, Len(docs)) |->
                               Feedback(SliceLast(docs, LastN)[i])]]

AnalyticsBody(docs) ==
    [totalGenerated |-> Len(docs),
     averageRating |-> ToFixed(SumRatings(docs), Len(docs), FixedDigits),
     last5Feedbacks |-> [i \in 1..Min(LastN, Len(docs)) |->
                            Feedback(SliceLast(docs, LastN)[i])]]

\* Prompt.find answers or throws, and the handler responds.
Analytics(p, orgName) ==
    /\ Accepts(p)
    /\ LET docs == FindPrompts(orgName) IN
       \/ resp' = Response("analytics", 500, [error |-> "Error fetching analytics"])
       \/ /\ Len(docs) = 0
          /\ resp' = Response("analytics", 404,
                              [error |-> "No data found for this organization"])
       \/ /\ Len(docs) # 0
          /\ resp' = Response("analytics", 200, AnalyticsBody(docs))
    /\ UNCHANGED <<orgs, prompts, req, providerCalls, genFailed>>

-----------------------------------------------------------------------------

ProcNext(p) ==
    \/ Welcome(p)
    \/ \E body \in OnboardBodies : Onboard(p, body)
    \/ \E body \in GenerateBodies : Generate(p, body)
    \/ \E result \in {None} \cup {Some(t) : t \in Contents} : GenerateCompletion(p, result)
    \/ \E ok \in BOOLEAN : GenerateCreate(p, ok)
    \/ \E body \in RateBodies : Rate(p, body)
    \/ \E ok \in BOOLEAN : RateSave(p, ok)
    \/ \E orgName \in OrgNames : Analytics(p, orgName)

Next == \E p \in Procs : ProcNext(p)

Spec == Init /\ [][Next]_vars

-----------------------------------------------------------------------------
(* One request at a time: a request arrives only after the previous one    *)
(* has been answered, so slot 1 serves them all.                           *)

SeqNext == ProcNext(1)

SeqSpec == Init /\ [][SeqNext]_vars

-----------------------------------------------------------------------------
(* The Analytics handler over arbitrary store contents: the two            *)
(* organizations are onboarded, and Seed places in the Prompt collection   *)
(* a record as a completed Generation request leaves it, or as a later     *)
(* Rating request leaves it: for "acme" unrated, rated 2 or rated 4, for   *)
(* "bolt" rated 4.                                                         *)

SeedOrgs ==
    <<[orgName |-> "acme", brandGuide |-> "bg", goals |-> "gl", personas |-> "ps",
       stylePreferences |-> "st"],
      [orgName |-> "bolt", brandGuide |-> "bg", goals |-> "gl", personas |-> "ps",
       stylePreferences |-> "st"]>>

SeedRatings == {<<None, None>>, <<Some(2), Some("f1")>>, <<Some(4), None>>}

\* NewPrompt as Prompt.create stores it, then rated as entry.save leaves it.
Rated(rec, rf) == ApplySave(rec, ModifiedPaths(rec, rf[1], rf[2]), rf[1], rf[2])

SeedRecords ==
    {Rated(NewPrompt("acme", "p", "t1"), rf) : rf \in SeedRatings} \cup
    {Rated(NewPrompt("bolt", "q", "t1"), <<Some(4), Some("f1")>>)}

Seed(rec) ==
    /\ Len(prompts) < MaxSeed
    /\ prompts' = Append(prompts, rec)
    /\ resp' = NoResp
    /\ UNCHANGED <<orgs, req, providerCalls, genFailed>>

InitAnalytics ==
    /\ orgs = SeedOrgs
    /\ prompts = <<>>
    /\ req = [p \in Procs |-> Idle]
    /\ resp = NoResp
    /\ providerCalls = 0
    /\ genFailed = 0

AnalyticsNext ==
    \/ \E rec \in SeedRecords : Seed(rec)
    \/ \E p \in Procs, orgName \in OrgNames : Analytics(p, orgName)

SpecAnalytics == InitAnalytics /\ [][AnalyticsNext]_vars

-----------------------------------------------------------------------------
(* Vocabulary of the properties *)

\* Positions of the Prompt records of an organization, and the m-th of them.
OrgIdx(o) == {i \in 1..Len(prompts) : prompts[i].orgName = o}

NthOf(o, m) == CHOOSE i \in OrgIdx(o) : Cardinality({j \in OrgIdx(o) : j <= i}) = m

RECURSIVE SumOver(_)
SumOver(S) ==
    IF S = {} THEN 0
    ELSE LET i == CHOOSE j \in S : TRUE
         IN (IF prompts[i].rating = None THEN 0 ELSE prompts[i].rating[1]) + SumOver(S \ {i})

\* str is the decimal w.dd that lies within half a hundredth of sum / n
\* (sum >= 0, sum / n < 10).
TwoDecimals(str, sum, n) ==
    \E q \in ((100 * sum) \div n)..((100 * sum) \div n + 1) :
        /\ 2 * n * q - 200 * sum \in (0 - n)..n
        /\ str = Digit(q \div 100) \o "." \o Digit((q \div 10) % 10) \o Digit(q % 10)

OrgExists(o) == \E j \in 1..Len(orgs) : orgs[j].orgName = o

-----------------------------------------------------------------------------
\* C1: a Generation request with orgName and prompt present, for an existing
\* organization, whose provider call returns T and whose create succeeds,
\* answers 200 {content: T} and appends exactly one Prompt record holding that
\* orgName, prompt and T with rating and feedback unset; its earlier steps
\* change no record.
C1_GenerationStoresOneRecord ==
    [][\A p \in Procs :
        /\ \A body \in GenerateBodies :
              (req[p] = Idle /\ req'[p] # Idle /\ Generate(p, body)) =>
                  /\ OrgExists(body.orgName)
                  /\ req'[p].orgName = body.orgName /\ req'[p].prompt = body.prompt
                  /\ prompts' = prompts /\ orgs' = orgs
        /\ \A t \in Contents :
              GenerateCompletion(p, Some(t)) =>
                  /\ req'[p].orgName = req[p].orgName /\ req'[p].prompt = req[p].prompt
                  /\ req'[p].content = t
                  /\ prompts' = prompts /\ orgs' = orgs
        /\ GenerateCreate(p, TRUE) =>
                  /\ resp' = [route |-> "generate", status |-> 200,
                              body |-> [content |-> req[p].content]]
                  /\ prompts' = Append(prompts,
                                       [orgName |-> req[p].orgName, prompt |-> req[p].prompt,
                                        content |-> req[p].content,
                                        rating |-> None, feedback |-> None])
                  /\ orgs' = orgs]_vars

C1_Witness ==
    /\ resp.route = "generate" /\ resp.status = 200
    /\ Len(prompts) = 2
    /\ prompts[2].content = resp.body.content
    /\ prompts[2].rating = None /\ prompts[2].feedback = None
    /\ prompts[1].rating # None

\* C2: a Generation request with orgName and prompt present and no
\* Organization record of that orgName answers 404 (when the lookup itself
\* does not fail), ends there, and leaves the Prompt collection as it was.
\* (Every step of the handler answers on the generate route or takes a slot.)
C2_UnknownOrgNotFound ==
    [][(resp'.route = "generate" \/ \E q \in Procs : req[q] = Idle /\ req'[q] # Idle) =>
          \A p \in Procs, body \in GenerateBodies :
              (/\ body.orgName # "" /\ body.prompt # ""
               /\ ~OrgExists(body.orgName)
               /\ Generate(p, body)
               /\ resp'.status # 500) =>
                  /\ resp'.status = 404
                  /\ req'[p] = Idle
                  /\ prompts' = prompts]_vars

C2_Witness ==
    /\ resp.route = "generate" /\ resp.status = 404
    /\ Len(orgs) > 0 /\ Len(prompts) > 0

C4_AverageCountsUnratedAsZero ==
    [][\A p \in Procs, o \in OrgNames :
        (Analytics(p, o) /\ resp'.status = 200) =>
            LET n == Cardinality(OrgIdx(o))
            IN /\ n >= 1
               /\ resp'.body.totalGenerated = n
               /\ TwoDecimals(resp'.body.averageRating, SumOver(OrgIdx(o)), n)]_vars

\* The example of the claim: ratings [4, unset, 2] give 3 and "2.00".
C4_Witness ==
    /\ resp.route = "analytics" /\ resp.status = 200
    /\ resp.body.totalGenerated = 3
    /\ resp.body.averageRating = "2.00"
    /\ \E o \in OrgNames :
          /\ Cardinality(OrgIdx(o)) = 3
          /\ prompts[NthOf(o, 1)].rating = Some(4)
          /\ prompts[NthOf(o, 2)].rating = None
          /\ prompts[NthOf(o, 3)].rating = Some(2)
    /\ Len(prompts) > 3

\* C5 as claimed: once the Rating handler has written a record (its rating is
\* set), the record is never written again.
C5_WrittenAtMostOnce ==
    [][\A i \in 1..Len(prompts) : prompts[i].rating # None => prompts'[i] = prompts[i]]_vars

\* C5 as amended: a Prompt record is created with rating and feedback unset;
\* afterwards its orgName, prompt and content never change and no record is
\* removed; its rating and feedback change only in a successful save of the
\* Rating handler for that record, which may happen repeatedly.
C5_OnlyRatingMutates ==
    [][/\ Len(prompts') >= Len(prompts)
       /\ \A i \in 1..Len(prompts) :
             /\ prompts'[i].orgName = prompts[i].orgName
             /\ prompts'[i].prompt = prompts[i].prompt
             /\ prompts'[i].content = prompts[i].content
             /\ prompts'[i] # prompts[i] =>
                   /\ resp'.route = "rate" /\ resp'.status = 200
                   /\ \E p \in Procs : /\ req[p].pc = "rate_save" /\ req[p].id = i
                                       /\ req'[p] = Idle
       /\ \A i \in (Len(prompts) + 1)..Len(prompts') :
             prompts'[i].rating = None /\ prompts'[i].feedback = None]_vars

C5_Witness ==
    /\ resp.route = "rate" /\ resp.status = 200
    /\ \E i \in 1..Len(prompts) : prompts[i].rating # None /\ prompts[i].feedback # None
    /\ \E i \in 1..Len(prompts) : prompts[i].rating = None

\* C6: while no Generation request has failed, every provider call made has
\* its own Prompt record stored or its create outstanding: N requests that all
\* succeed make exactly N provider calls and store exactly N records, identical
\* (orgName, prompt) or not.
C6_OneCallOneRecordPerRequest ==
    genFailed = 0 =>
        providerCalls = Len(prompts) + Cardinality({p \in Procs : req[p].pc = "generate_create"})

C6_Witness ==
    /\ genFailed = 0 /\ providerCalls = 2
    /\ Len(prompts) = 2
    /\ prompts[1].orgName = prompts[2].orgName /\ prompts[1].prompt = prompts[2].prompt
    /\ \A p \in Procs : req[p] = Idle

\* C7: an Onboarding request with any of the five fields missing or empty
\* answers 400 and leaves the Organization collection as it was: no step
\* that answers an Onboarding request otherwise, or changes the collection,
\* is the handler's step for such a body.
C7_OnboardMissingField ==
    [][(resp'.route = "onboard" /\ ~(resp'.status = 400 /\ orgs' = orgs /\ req' = req)) =>
          \A p \in Procs, body \in OnboardBodies :
              (\E f \in OnboardFields : body[f] = "") => ~Onboard(p, body)]_vars

C7_Witness ==
    /\ resp.route = "onboard" /\ resp.status = 400
    /\ Len(orgs) > 0

\* C8: in a successful Analytics answer last5Feedbacks has min(5,
\* totalGenerated) entries: the last that many Prompt records of the orgName,
\* in the store's order, each reduced to prompt, rating and feedback.
C8_LastFiveInOrder ==
    [][\A p \in Procs, o \in OrgNames :
        (Analytics(p, o) /\ resp'.status = 200) =>
            LET n == Cardinality(OrgIdx(o))
                k == IF n < 5 THEN n ELSE 5
                l == resp'.body.last5Feedbacks
            IN /\ resp'.body.totalGenerated = n
               /\ DOMAIN l = 1..k
               /\ \A j \in 1..k :
                     LET d == prompts[NthOf(o, n - k + j)]
                     IN l[j] = [prompt |-> d.prompt, rating |-> d.rating,
                                feedback |-> d.feedback]]_vars

C8_Witness ==
    /\ resp.route = "analytics" /\ resp.status = 200
    /\ resp.body.totalGenerated = 6
    /\ DOMAIN resp.body.last5Feedbacks = 1..5
    /\ resp.body.last5Feedbacks[1].rating # prompts[1].rating

\* C9: every Prompt record's orgName is the orgName of some Organization
\* record.
C9_ReferentialIntegrity ==
    \A i \in 1..Len(prompts) : \E j \in 1..Len(orgs) : orgs[j].orgName = prompts[i].orgName

C9_Witness ==
    /\ Len(prompts) >= 1
    /\ \E p \in Procs : req[p].pc = "rate_save"
    /\ \E p \in Procs : req[p].pc = "generate_create"

\* C10 as claimed: whenever a Rating request's save succeeds, the record then
\* holds exactly that request's rating and feedback, so the final pair is the
\* pair of the request whose save ran last.
C10_LastSaveWinsWhole ==
    [][\A p \in Procs :
        RateSave(p, TRUE) =>
            /\ prompts'[req[p].id].rating = req[p].rating
            /\ prompts'[req[p].id].feedback = req[p].feedback]_vars

=============================================================================
